---- MODULE Spec2Model ----
(***************************************************************************)
(* Model of the ACRemoteProtocol crate: the Elios command state            *)
(* (validation, byte layout, checksum, 48-bit value, bit vector) and the   *)
(* infrared pulse encoder.                                                 *)
(*                                                                         *)
(* Conventions                                                             *)
(*   Option<T>   : <<>> is None, <<x>> is Some(x).                         *)
(*   u8          : a number in 0..255; shifts and negation truncate to 8   *)
(*                 bits; + and - wrap, and the *_overflows predicates say  *)
(*                 when the untruncated result leaves 0..255.              *)
(*   u64         : three limbs <<l2, l1, l0>> of 16, 24 and 24 bits, the   *)
(*                 number l2 * 2^48 + l1 * 2^24 + l0.                      *)
(*   BitVec      : a sequence of BOOLEAN, index 1 is bit 0 of the vector.  *)
(*   overflow    : a u8 + - * whose result leaves 0..255 panics in a build *)
(*                 with overflow checks and wraps in one without; an       *)
(*                 action draws the build and records the event in trapped.*)
(***************************************************************************)
EXTENDS Integers, Sequences, FiniteSets, TLC

VARIABLES args, state, data, chk, value, bits, ir, pulses, calls, trapped,
          temp, converted, byte, reversed

\* what the command pipeline reads and writes
pipeVars == <<args, state, data, chk, value, bits, ir, pulses>>

\* what the calls of the common utilities read and write
utilVars == <<temp, converted, byte, reversed>>

vars == <<pipeVars, calls, trapped, utilVars>>

----------------------------------------------------------------------------
(* Bounds of the model *)

\* longest bit sequence handed directly to the encoder
MaxBits == 4

\* how many times in a row a byte is bit-reversed
MaxApply == 2

----------------------------------------------------------------------------
(* Machine arithmetic *)

U8 == 0..255

Pow2(n) == 2 ^ n

BitAt(x, i) == (x \div Pow2(i)) % 2

\* bitwise and, or, xor of two 4-bit numbers, one bit at a time
RECURSIVE NibbleOp(_, _, _)
NibbleOp(op, a, b) ==
    IF a = 0 /\ b = 0 THEN 0
    ELSE (CASE op = "and" -> (a % 2) * (b % 2)
            [] op = "or"  -> IF (a % 2) + (b % 2) > 0 THEN 1 ELSE 0
            [] op = "xor" -> ((a % 2) + (b % 2)) % 2)
         + 2 * NibbleOp(op, a \div 2, b \div 2)

AndTable == [a \in 0..15 |-> [b \in 0..15 |-> NibbleOp("and", a, b)]]
OrTable  == [a \in 0..15 |-> [b \in 0..15 |-> NibbleOp("or", a, b)]]
XorTable == [a \in 0..15 |-> [b \in 0..15 |-> NibbleOp("xor", a, b)]]

\* a & b, a | b, a ^ b on unsigned numbers of any width, a nibble at a time
RECURSIVE BitAnd(_, _)
BitAnd(a, b) ==
    IF a = 0 \/ b = 0 THEN 0
    ELSE AndTable[a % 16][b % 16] + 16 * BitAnd(a \div 16, b \div 16)

RECURSIVE BitOr(_, _)
BitOr(a, b) ==
    IF a = 0 THEN b
    ELSE IF b = 0 THEN a
    ELSE OrTable[a % 16][b % 16] + 16 * BitOr(a \div 16, b \div 16)

RECURSIVE BitXor(_, _)
BitXor(a, b) ==
    IF a = 0 THEN b
    ELSE IF b = 0 THEN a
    ELSE XorTable[a % 16][b % 16] + 16 * BitXor(a \div 16, b \div 16)

\* x << n on a u8: the bits shifted past bit 7 are dropped
Shl8(x, n) == (x * Pow2(n)) % 256

\* x >> n
Shr(x, n) == x \div Pow2(n)

\* !x on a u8
Not8(x) == 255 - x

\* a + b and a - b on u8, wrapped
Add8(a, b) == (a + b) % 256
Sub8(a, b) == (a - b + 256) % 256

\* b as u8 for a bool
BoolU8(b) == IF b THEN 1 ELSE 0

Min(a, b) == IF a <= b THEN a ELSE b
Max(a, b) == IF a >= b THEN a ELSE b

None == <<>>
Some(x) == <<x>>
IsSome(o) == o # <<>>
Unwrap(o) == o[1]

----------------------------------------------------------------------------
(* common/utils.rs *)

\* the fold over 0..7 instead of 0..8: bit 7 of x is never read
RECURSIVE bitreverse_fold_short(_, _, _)
bitreverse_fold_short(x, i, acc) ==
    IF i >= 7 THEN acc
    ELSE bitreverse_fold_short(x, i + 1,
                               BitOr(acc, Shl8(BitAnd(Shr(x, i), 1), 7 - i)))

RECURSIVE bitreverse_fold(_, _, _)
bitreverse_fold(x, i, acc) ==
    IF i = 8 THEN acc
    ELSE bitreverse_fold(x, i + 1, BitOr(acc, Shl8(BitAnd(Shr(x, i), 1), 7 - i)))

\* the fold, evaluated once for each of the 256 bytes
bitreverse_u8 == [x \in U8 |-> bitreverse_fold(x, 0, 0)]

bitreverse(x) == bitreverse_u8[x]

----------------------------------------------------------------------------
(* elios/state.rs: enumerations and constants *)

EliosFanSpeed == {"Off", "Automatic", "Low", "Medium", "High"}

EliosMode == {"Cold", "Dry", "Automatic", "Heat", "Fan"}

\* fan_speed as u8
FanCode(f) ==
    CASE f = "Off" -> 0
      [] f = "Automatic" -> 4
      [] f = "Low" -> 1
      [] f = "Medium" -> 2
      [] f = "High" -> 3

\* mode as u8
ModeCode(m) ==
    CASE m = "Cold" -> 0
      [] m = "Dry" -> 1
      [] m = "Automatic" -> 2
      [] m = "Heat" -> 3
      [] m = "Fan" -> 4

MIN_CELCIUS == 17
MAX_CELCIUS == 30
MIN_FAHRENHEIT == 62
MAX_FAHRENHEIT == 86
FAN_TEMPERATURE == 30

Celcius(t) == [unit |-> "Celcius", deg |-> t]
Fahrenheit(t) == [unit |-> "Fahrenheit", deg |-> t]

Temperature == {Celcius(t) : t \in U8} \cup {Fahrenheit(t) : t \in U8}

----------------------------------------------------------------------------
(* common/temperature.rs *)

\* a * b on u8, wrapped
Mul8(a, b) == (a * b) % 256

as_fahrenheit(t) ==
    IF t.unit = "Celcius"
    THEN Fahrenheit(Add8(Mul8(t.deg, 9) \div 5, 32))
    ELSE t

\* the multiplication or the addition of as_fahrenheit leaves 0..255
as_fahrenheit_overflows(t) ==
    /\ t.unit = "Celcius"
    /\ \/ t.deg * 9 > 255
       \/ (Mul8(t.deg, 9) \div 5) + 32 > 255

as_celcius(t) ==
    IF t.unit = "Fahrenheit"
    THEN Celcius(Mul8(Sub8(t.deg, 32), 5) \div 9)
    ELSE t

\* the subtraction or the multiplication of as_celcius leaves 0..255
as_celcius_overflows(t) ==
    /\ t.unit = "Fahrenheit"
    /\ \/ t.deg < 32
       \/ Sub8(t.deg, 32) * 5 > 255

----------------------------------------------------------------------------
(* elios/state.rs: EliosState::new *)

\* clamp with min and max applied to the wrong bounds
clamp_swapped(t) ==
    IF t.unit = "Celcius"
    THEN Celcius(Max(Min(t.deg, MIN_CELCIUS), MAX_CELCIUS))
    ELSE Fahrenheit(Max(Min(t.deg, MIN_FAHRENHEIT), MAX_FAHRENHEIT))

\* clamp without the lower bound
clamp_no_floor(t) ==
    IF t.unit = "Celcius"
    THEN Celcius(Min(t.deg, MAX_CELCIUS))
    ELSE Fahrenheit(Min(t.deg, MAX_FAHRENHEIT))

\* the clamp of a supplied temperature, in its own unit
clamp(t) ==
    IF t.unit = "Celcius"
    THEN Celcius(Max(Min(t.deg, MAX_CELCIUS), MIN_CELCIUS))
    ELSE Fahrenheit(Max(Min(t.deg, MAX_FAHRENHEIT), MIN_FAHRENHEIT))

\* new_temperature with the Fan constant stored without its base
new_temperature_no_base(mode, temperature) ==
    IF mode = "Fan"
    THEN IF IsSome(temperature)
         THEN None
         ELSE Some(Celcius(FAN_TEMPERATURE))
    ELSE IF ~IsSome(temperature)
         THEN None
         ELSE Some(clamp(Unwrap(temperature)))

\* let temperature = ...: None stands for the early return
new_temperature(mode, temperature) ==
    IF mode = "Fan"
    THEN IF IsSome(temperature)
         THEN None
         ELSE Some(Celcius(Add8(MIN_CELCIUS, FAN_TEMPERATURE)))
    ELSE IF ~IsSome(temperature)
         THEN None
         ELSE Some(clamp(Unwrap(temperature)))

\* new_fan with Dry left out of the modes that force the fan off
new_fan_dry_unforced(mode, fan_speed) ==
    IF mode = "Automatic"
    THEN IF IsSome(fan_speed) /\ Unwrap(fan_speed) # "Off"
         THEN None
         ELSE Some("Off")
    ELSE Some(IF IsSome(fan_speed) THEN Unwrap(fan_speed) ELSE "Automatic")

\* new_fan with an omitted fan speed defaulting to Off
new_fan_default_off(mode, fan_speed) ==
    IF mode \in {"Automatic", "Dry"}
    THEN IF IsSome(fan_speed) /\ Unwrap(fan_speed) # "Off"
         THEN None
         ELSE Some("Off")
    ELSE Some(IF IsSome(fan_speed) THEN Unwrap(fan_speed) ELSE "Off")

\* let fan = match mode ...: None stands for the early return
new_fan(mode, fan_speed) ==
    IF mode \in {"Automatic", "Dry"}
    THEN IF IsSome(fan_speed) /\ Unwrap(fan_speed) # "Off"
         THEN None
         ELSE Some("Off")
    ELSE Some(IF IsSome(fan_speed) THEN Unwrap(fan_speed) ELSE "Automatic")

\* new_sleep with Dry taken for a mode that can sleep
new_sleep_dry(mode, sleep) ==
    sleep /\ (mode = "Cold" \/ mode = "Heat" \/ mode = "Automatic" \/ mode = "Dry")

\* let sleep = sleep && (...)
new_sleep(mode, sleep) ==
    sleep /\ (mode = "Cold" \/ mode = "Heat" \/ mode = "Automatic")

\* the addition of new leaves 0..255
new_overflows(mode, temperature) ==
    mode = "Fan" /\ ~IsSome(temperature) /\ MIN_CELCIUS + FAN_TEMPERATURE > 255

new(fan_speed, mode, temperature, powered, sleep) ==
    LET t == new_temperature(mode, temperature)
        f == new_fan(mode, fan_speed)
    IN  IF ~IsSome(t) THEN None
        ELSE IF ~IsSome(f) THEN None
        ELSE Some([fan_speed   |-> Unwrap(f),
                   mode        |-> mode,
                   temperature |-> Unwrap(t),
                   powered     |-> powered,
                   sleep       |-> new_sleep(mode, sleep)])

----------------------------------------------------------------------------
(* elios/state.rs: serialization *)

\* options_byte with the fan code shifted one bit short
options_byte_fan_shift2(s) ==
    BitOr(BitOr(BitOr(Shl8(BoolU8(s.powered), 7),
                      Shl8(BoolU8(s.sleep), 6)),
                Shl8(FanCode(s.fan_speed), 2)),
          ModeCode(s.mode))

\* data[1]: the options byte
options_byte(s) ==
    BitOr(BitOr(BitOr(Shl8(BoolU8(s.powered), 7),
                      Shl8(BoolU8(s.sleep), 6)),
                Shl8(FanCode(s.fan_speed), 3)),
          ModeCode(s.mode))

\* temperature_byte without the fixed bit 6
temperature_byte_unmarked(s) ==
    IF s.temperature.unit = "Celcius"
    THEN Sub8(s.temperature.deg, MIN_CELCIUS)
    ELSE BitOr(Sub8(s.temperature.deg, MIN_FAHRENHEIT), Shl8(1, 5))

\* temperature_byte without the Fahrenheit bit 5
temperature_byte_no_unit(s) ==
    BitOr(Shl8(1, 6),
          IF s.temperature.unit = "Celcius"
          THEN Sub8(s.temperature.deg, MIN_CELCIUS)
          ELSE Sub8(s.temperature.deg, MIN_FAHRENHEIT))

\* data[2]: the temperature byte
temperature_byte(s) ==
    BitOr(Shl8(1, 6),
          IF s.temperature.unit = "Celcius"
          THEN Sub8(s.temperature.deg, MIN_CELCIUS)
          ELSE BitOr(Sub8(s.temperature.deg, MIN_FAHRENHEIT), Shl8(1, 5)))

as_raw_parts(s) ==
    <<161, options_byte(s), temperature_byte(s), 255, 255>>

\* the subtraction of as_raw_parts leaves 0..255
as_raw_parts_overflows(s) ==
    IF s.temperature.unit = "Celcius"
    THEN s.temperature.deg < MIN_CELCIUS
    ELSE s.temperature.deg < MIN_FAHRENHEIT

\* the untruncated sum of the checksum, over the bit-reversed bytes r
checksum_sum(r) ==
    Shr(r[1], 4) + Shr(r[2], 4) + Shr(r[3], 4) + BitAnd(Shr(r[3], 3), 1)

\* the checksum without the conditional term and the carry bit
checksum_draft(d) ==
    LET r == [i \in 1..Len(d) |-> bitreverse(d[i])]
        left == BitAnd(BitXor(BitXor(BitXor(r[1], r[2]), r[3]), 4), 15)
        right == BitAnd((Shr(r[1], 4) + Shr(r[2], 4) + Shr(r[3], 4)) % 256, 15)
        v == BitOr(Shl8(Not8(right), 4), left)
    IN  bitreverse(v)

checksum(d) ==
    LET r == [i \in 1..Len(d) |-> bitreverse(d[i])]
        xor_nibble ==
            BitAnd(BitXor(BitXor(BitXor(BitXor(r[1], r[2]), r[3]), 4),
                          IF BitAnd(Shr(r[2], 2), 7) = 0 THEN 8 ELSE 0),
                   15)
        sum_nibble == BitAnd(checksum_sum(r) % 256, 15)
        v == BitOr(Shl8(Not8(sum_nibble), 4), xor_nibble)
    IN  bitreverse(v)

checksum_overflows(d) ==
    checksum_sum([i \in 1..Len(d) |-> bitreverse(d[i])]) > 255

U64Zero == <<0, 0, 0>>

\* v << 8 on a u64
U64Shl8(v) ==
    <<(v[1] % 256) * 256 + (v[2] \div 65536),
      (v[2] % 65536) * 256 + (v[3] \div 65536),
      (v[3] % 65536) * 256>>

\* v | x as u64, for a byte x
U64OrU8(v, x) == <<v[1], v[2], BitOr(v[3], x)>>

\* data.iter().fold(0, |acc, x| acc << 8 | *x as u64)
RECURSIVE as_value_fold(_, _, _)
as_value_fold(d, i, acc) ==
    IF i > Len(d) THEN acc
    ELSE as_value_fold(d, i + 1, U64OrU8(U64Shl8(acc), d[i]))

as_value(s) ==
    LET d == as_raw_parts(s)
        c == checksum(d)
    IN  U64OrU8(U64Shl8(as_value_fold(d, 1, U64Zero)), c)

\* BitVec::from_bytes: each byte most significant bit first
from_bytes(bytes) ==
    [i \in 1..(8 * Len(bytes)) |->
        BitAt(bytes[((i - 1) \div 8) + 1], 7 - ((i - 1) % 8)) = 1]

\* as_bitvec without the checksum pushed
as_bitvec_no_checksum(s) ==
    from_bytes(as_raw_parts(s))

as_bitvec(s) ==
    LET d == as_raw_parts(s)
        c == checksum(d)
        buffer == Append(d, c)
    IN  from_bytes(buffer)

----------------------------------------------------------------------------
(* common/infrared.rs *)

\* the timing table of the encoder's test
IR == [leading_pulse |-> 4500, leading_gap |-> 4500,
       one_pulse |-> 500, one_gap |-> 1500,
       zero_pulse |-> 500, zero_gap |-> 500]

RECURSIVE encode_loop(_, _, _, _)
encode_loop(p, d, i, buffer) ==
    IF i > Len(d) THEN buffer
    ELSE encode_loop(p, d, i + 1,
                     IF d[i]
                     THEN Append(Append(buffer, p.one_pulse), p.one_gap)
                     ELSE Append(Append(buffer, p.zero_pulse), p.zero_gap))

\* encode with the test of the bit inverted
encode_inverted(p, d) ==
    encode_loop(p, [i \in 1..Len(d) |-> ~d[i]], 1,
                Append(Append(<<>>, p.leading_pulse), p.leading_gap))

encode(p, d) ==
    encode_loop(p, d, 1, Append(Append(<<>>, p.leading_pulse), p.leading_gap))

----------------------------------------------------------------------------
(* The state machine: a caller builds an EliosState from candidate fields, *)
(* serializes it with as_value and as_bitvec, and feeds the bit vector to  *)
(* InfraredProtocol::encode.                                               *)

OptFanSpeed == {None} \cup {Some(f) : f \in EliosFanSpeed}

OptTemperature == {None} \cup {Some(t) : t \in Temperature}

Args == [fan_speed : OptFanSpeed, mode : EliosMode,
         temperature : OptTemperature, powered : BOOLEAN, sleep : BOOLEAN]

\* the arguments of a run that constructs no state
NoArgs == [fan_speed |-> None, mode |-> "Fan", temperature |-> None,
           powered |-> FALSE, sleep |-> FALSE]

\* a run that calls none of the common utilities directly
UtilIdle ==
    /\ temp = Celcius(MIN_CELCIUS)
    /\ converted = None
    /\ byte = 0
    /\ reversed = <<>>

Init ==
    /\ args \in Args
    /\ state = None
    /\ data = None
    /\ chk = None
    /\ value = None
    /\ bits = None
    /\ ir = IR
    /\ pulses = None
    /\ calls = {}
    /\ trapped = FALSE
    /\ UtilIdle

\* EliosState::new(args)
New ==
    /\ "new" \notin calls
    /\ state' = new(args.fan_speed, args.mode, args.temperature,
                    args.powered, args.sleep)
    /\ trapped' = (trapped \/ new_overflows(args.mode, args.temperature))
    /\ calls' = calls \cup {"new"}
    /\ UNCHANGED <<args, data, chk, value, bits, ir, pulses>>
    /\ UNCHANGED utilVars

\* state.as_value(), with the payload and checksum it computes on the way
AsValue ==
    /\ "new" \in calls
    /\ IsSome(state)
    /\ "as_value" \notin calls
    /\ LET s == Unwrap(state)
       IN  /\ data' = Some(as_raw_parts(s))
           /\ chk' = Some(checksum(as_raw_parts(s)))
           /\ value' = Some(as_value(s))
           /\ trapped' = (trapped \/ as_raw_parts_overflows(s)
                                  \/ checksum_overflows(as_raw_parts(s)))
    /\ calls' = calls \cup {"as_value"}
    /\ UNCHANGED <<args, state, bits, ir, pulses>>
    /\ UNCHANGED utilVars

\* state.as_bitvec(), with the payload and checksum it computes on the way
AsBitVec ==
    /\ "new" \in calls
    /\ IsSome(state)
    /\ "as_bitvec" \notin calls
    /\ LET s == Unwrap(state)
       IN  /\ data' = Some(as_raw_parts(s))
           /\ chk' = Some(checksum(as_raw_parts(s)))
           /\ bits' = Some(as_bitvec(s))
           /\ trapped' = (trapped \/ as_raw_parts_overflows(s)
                                  \/ checksum_overflows(as_raw_parts(s)))
    /\ calls' = calls \cup {"as_bitvec"}
    /\ UNCHANGED <<args, state, value, ir, pulses>>
    /\ UNCHANGED utilVars

\* ir.encode(bits)
Encode ==
    /\ IsSome(bits)
    /\ "encode" \notin calls
    /\ pulses' = Some(encode(ir, Unwrap(bits)))
    /\ calls' = calls \cup {"encode"}
    /\ UNCHANGED <<args, state, data, chk, value, bits, ir, trapped>>
    /\ UNCHANGED utilVars

Next == New \/ AsValue \/ AsBitVec \/ Encode

Spec == Init /\ [][Next]_vars

----------------------------------------------------------------------------
(* The encoder alone, on any timing table and any short bit sequence *)

Durations == {500, 1500}

Tables == {IR} \cup
          [leading_pulse : Durations, leading_gap : Durations,
           one_pulse : Durations, one_gap : Durations,
           zero_pulse : Durations, zero_gap : Durations]

BitSeqs == UNION {[1..n -> BOOLEAN] : n \in 0..MaxBits}

InitEncode ==
    /\ args = NoArgs
    /\ state = None
    /\ data = None
    /\ chk = None
    /\ value = None
    /\ bits \in {Some(b) : b \in BitSeqs}
    /\ ir \in Tables
    /\ pulses = None
    /\ calls = {}
    /\ trapped = FALSE
    /\ UtilIdle

NextEncode == Encode

SpecEncode == InitEncode /\ [][NextEncode]_vars

----------------------------------------------------------------------------
(* The checksum alone, on payloads that need not come from a state *)

\* header bytes tried besides the real one
ChkHeaders == {161, 0, 255}

\* values tried for the two trailing payload bytes
ChkTrailers == {<<255, 255>>, <<0, 18>>}

InitChecksum ==
    /\ args = NoArgs
    /\ state = None
    /\ \E b0 \in ChkHeaders, b1 \in U8, b2 \in U8, t \in ChkTrailers :
          data = Some(<<b0, b1, b2, t[1], t[2]>>)
    /\ chk = None
    /\ value = None
    /\ bits = None
    /\ ir = IR
    /\ pulses = None
    /\ calls = {}
    /\ trapped = FALSE
    /\ UtilIdle

\* EliosState::checksum(&data)
Checksum ==
    /\ IsSome(data)
    /\ chk = None
    /\ chk' = Some(checksum(Unwrap(data)))
    /\ trapped' = (trapped \/ checksum_overflows(Unwrap(data)))
    /\ UNCHANGED <<args, state, data, value, bits, ir, pulses, calls>>
    /\ UNCHANGED utilVars

NextChecksum == Checksum

SpecChecksum == InitChecksum /\ [][NextChecksum]_vars

----------------------------------------------------------------------------
(* Properties of EliosState::new *)

Constructed == "new" \in calls /\ IsSome(state)

\* the three rejected combinations of candidate fields
Rejected(a) ==
    \/ a.mode = "Fan" /\ a.temperature # None
    \/ a.mode # "Fan" /\ a.temperature = None
    \/ /\ a.mode \in {"Automatic", "Dry"}
       /\ a.fan_speed \in {Some(f) : f \in EliosFanSpeed \ {"Off"}}

\* C1: once new has returned, it returned None exactly when the mode is Fan
\* and a temperature was supplied, or the mode is not Fan and none was, or
\* the mode is Automatic or Dry and a fan speed other than Off was supplied;
\* powered and sleep play no part.
C1_NewFailsIff ==
    "new" \in calls => ((state = None) <=> Rejected(args))

\* C1 witness: a Dry request with a temperature is turned down for its fan
\* speed alone.
C1_Witness ==
    /\ "new" \in calls
    /\ state = None
    /\ args.mode = "Dry"
    /\ args.temperature = Some(Celcius(24))
    /\ args.fan_speed = Some("High")

\* the nearest value to t in lo..hi
Nearest(t, lo, hi) == IF t < lo THEN lo ELSE IF t > hi THEN hi ELSE t

\* C2: a state built for a mode other than Fan stores the supplied
\* temperature in the supplied unit, with the degrees brought to the nearest
\* value of 17..30 (Celsius) or 62..86 (Fahrenheit).
C2_TemperatureClamped ==
    (Constructed /\ args.mode # "Fan") =>
        LET t == Unwrap(args.temperature)
            stored == Unwrap(state).temperature
        IN  /\ stored.unit = t.unit
            /\ stored.deg = IF t.unit = "Celcius"
                            THEN Nearest(t.deg, 17, 30)
                            ELSE Nearest(t.deg, 62, 86)

\* C2 witness: 87 Fahrenheit was supplied and 86 Fahrenheit is stored.
C2_Witness ==
    /\ Constructed
    /\ args.temperature = Some(Fahrenheit(87))
    /\ Unwrap(state).temperature = Fahrenheit(86)

\* C3: a state built for Automatic or Dry stores fan speed Off; a state
\* built for Cold, Heat or Fan stores the supplied fan speed, or Automatic
\* when none was supplied.
C3_FanSpeedStored ==
    Constructed =>
        Unwrap(state).fan_speed =
            IF args.mode \in {"Automatic", "Dry"} THEN "Off"
            ELSE IF args.fan_speed = None THEN "Automatic"
            ELSE Unwrap(args.fan_speed)

\* C3 witness: a Heat state built with the fan speed omitted stores
\* Automatic.
C3_Witness ==
    /\ Constructed
    /\ args.mode = "Heat"
    /\ args.fan_speed = None
    /\ Unwrap(state).fan_speed = "Automatic"

\* C4: the stored sleep flag is the requested one for Cold, Heat and
\* Automatic and false for Dry and Fan, and the payload of a Dry or Fan
\* state never has bit 6 of byte 1 set.
C4_SleepGated ==
    Constructed =>
        /\ Unwrap(state).sleep =
               (args.sleep /\ args.mode \in {"Cold", "Heat", "Automatic"})
        /\ (IsSome(data) /\ args.mode \in {"Dry", "Fan"}) =>
               BitAt(Unwrap(data)[2], 6) = 0

\* C4 witness: sleep was requested for a Dry state, which is serialized
\* with sleep off.
C4_Witness ==
    /\ Constructed
    /\ args.mode = "Dry"
    /\ args.sleep
    /\ ~Unwrap(state).sleep
    /\ IsSome(data)

\* C5: a Fan state stores the reserved temperature Celcius(47), outside
\* 17..30, and its payload byte 2 is 0b01011110.
C5_FanTemperature ==
    (Constructed /\ args.mode = "Fan") =>
        /\ Unwrap(state).temperature = Celcius(47)
        /\ Unwrap(state).temperature.deg \notin 17..30
        /\ IsSome(data) => Unwrap(data)[3] = 94

\* C5 witness: a Fan state with fan speed Low and sleep requested has been
\* serialized.
C5_Witness ==
    /\ Constructed
    /\ args.mode = "Fan"
    /\ args.fan_speed = Some("Low")
    /\ args.sleep
    /\ IsSome(data)
    /\ Unwrap(data)[3] = 94

----------------------------------------------------------------------------
(* Properties of the serialization *)

\* the numeric codes of the wire layout
WireFan == [Off |-> 0, Low |-> 1, Medium |-> 2, High |-> 3, Automatic |-> 4]

WireMode == [Cold |-> 0, Dry |-> 1, Automatic |-> 2, Heat |-> 3, Fan |-> 4]

\* C6: the payload of a constructed state has 5 bytes: the header
\* 0b10100001; powered, sleep, the fan code and the mode code in bits 7, 6,
\* 5..3 and 2..0 of byte 1, none overlapping another; 0b01000000 plus the
\* Celsius offset from 17, or plus 0b00100000 and the Fahrenheit offset from
\* 62, in byte 2, whose bit 7 is clear; and 0xFF twice.
C6_PayloadLayout ==
    (Constructed /\ IsSome(data)) =>
        LET d == Unwrap(data)
            s == Unwrap(state)
            t == s.temperature
        IN  /\ Len(d) = 5
            /\ d[1] = 161
            /\ d[2] = 128 * BoolU8(s.powered) + 64 * BoolU8(s.sleep)
                      + 8 * WireFan[s.fan_speed] + WireMode[s.mode]
            /\ WireFan[s.fan_speed] < 8
            /\ WireMode[s.mode] < 8
            /\ d[3] = IF t.unit = "Celcius"
                      THEN 64 + (t.deg - 17)
                      ELSE 64 + 32 + (t.deg - 62)
            /\ IF t.unit = "Celcius"
               THEN t.deg - 17 \in 0..31
               ELSE t.deg - 62 \in 0..31
            /\ d[3] < 128
            /\ d[4] = 255
            /\ d[5] = 255

\* C6 witness: the payload of a powered, sleeping Heat state at 70
\* Fahrenheit with fan speed High.
C6_Witness ==
    /\ Constructed
    /\ Unwrap(state) = [fan_speed |-> "High", mode |-> "Heat",
                        temperature |-> Fahrenheit(70),
                        powered |-> TRUE, sleep |-> TRUE]
    /\ data = Some(<<161, 219, 104, 255, 255>>)

\* the byte whose bit i is bit 7 - i of b
Mirror(b) ==
    128 * BitAt(b, 0) + 64 * BitAt(b, 1) + 32 * BitAt(b, 2) + 16 * BitAt(b, 3)
    + 8 * BitAt(b, 4) + 4 * BitAt(b, 5) + 2 * BitAt(b, 6) + BitAt(b, 7)

\* bit k of the exclusive or of the numbers of the sequence xs
ParityBit(xs, k) ==
    LET RECURSIVE Ones(_)
        Ones(i) == IF i = 0 THEN 0 ELSE BitAt(xs[i], k) + Ones(i - 1)
    IN  Ones(Len(xs)) % 2

\* the checksum of the reference, from the first three payload bytes
RefChecksum(b0, b1, b2) ==
    LET r0 == Mirror(b0)
        r1 == Mirror(b1)
        r2 == Mirror(b2)
        extra == IF (r1 \div 4) % 8 = 0 THEN 8 ELSE 0
        xs == <<r0, r1, r2, 4, extra>>
        xor_nibble == 8 * ParityBit(xs, 3) + 4 * ParityBit(xs, 2)
                      + 2 * ParityBit(xs, 1) + ParityBit(xs, 0)
        sum_nibble == ((r0 \div 16) + (r1 \div 16) + (r2 \div 16)
                       + ((r2 \div 8) % 2)) % 16
    IN  Mirror(16 * (15 - sum_nibble) + xor_nibble)

\* C7: the checksum of any payload is the reference checksum of its first
\* three bytes, whatever bytes 3 and 4 are, and its 8-bit sum does not
\* overflow.
C7_ChecksumReference ==
    (IsSome(data) /\ IsSome(chk)) =>
        LET d == Unwrap(data)
        IN  /\ Unwrap(chk) = RefChecksum(d[1], d[2], d[3])
            /\ Unwrap(chk) \in U8
            /\ ~trapped

\* C7 witness: a checksum taken with the extra term (bits 2..4 of the
\* reversed byte 1 are zero), with the carry bit of byte 2 set, and with
\* trailing bytes other than 0xFF.
C7_Witness ==
    /\ data = Some(<<161, 129, 94, 0, 18>>)
    /\ chk = Some(RefChecksum(161, 129, 94))
    /\ (Mirror(129) \div 4) % 8 = 0
    /\ (Mirror(94) \div 8) % 2 = 1

----------------------------------------------------------------------------
(* Properties of as_value and as_bitvec *)

\* the u64 whose low six bytes are b[1] (most significant) .. b[6]
U64OfBytes(b) ==
    <<0, 65536 * b[1] + 256 * b[2] + b[3], 65536 * b[4] + 256 * b[5] + b[6]>>

\* bit k of a u64, k in 0..63
U64Bit(v, k) ==
    IF k < 24 THEN BitAt(v[3], k)
    ELSE IF k < 48 THEN BitAt(v[2], k - 24)
    ELSE BitAt(v[1], k - 48)

CallArgs(f, m, t, p, sl) ==
    [fan_speed |-> f, mode |-> m, temperature |-> t, powered |-> p, sleep |-> sl]

\* the words the appliance's remote sends, as asserted by the tests
ReferenceWords ==
    { <<CallArgs(Some("Automatic"), "Cold", Some(Celcius(17)), TRUE, FALSE),
        <<\hA1, \hA0, \h40, \hFF, \hFF, \h6E>> >>,
      <<CallArgs(Some("Automatic"), "Cold", Some(Celcius(18)), TRUE, FALSE),
        <<\hA1, \hA0, \h41, \hFF, \hFF, \h6F>> >>,
      <<CallArgs(Some("Automatic"), "Cold", Some(Fahrenheit(62)), TRUE, FALSE),
        <<\hA1, \hA0, \h60, \hFF, \hFF, \h4E>> >>,
      <<CallArgs(Some("Automatic"), "Cold", Some(Celcius(17)), FALSE, FALSE),
        <<\hA1, \h20, \h40, \hFF, \hFF, \hEE>> >>,
      <<CallArgs(Some("Automatic"), "Cold", Some(Celcius(17)), TRUE, TRUE),
        <<\hA1, \hE0, \h40, \hFF, \hFF, \h2E>> >>,
      <<CallArgs(Some("Automatic"), "Heat", Some(Celcius(30)), TRUE, FALSE),
        <<\hA1, \hA3, \h4D, \hFF, \hFF, \h60>> >>,
      <<CallArgs(Some("Automatic"), "Fan", None, TRUE, FALSE),
        <<\hA1, \hA4, \h5E, \hFF, \hFF, \h7B>> >>,
      <<CallArgs(None, "Dry", Some(Celcius(30)), TRUE, FALSE),
        <<\hA1, \h81, \h4D, \hFF, \hFF, \h52>> >>,
      <<CallArgs(Some("Automatic"), "Cold", Some(Fahrenheit(78)), TRUE, FALSE),
        <<\hA1, \hA0, \h70, \hFF, \hFF, \h56>> >>,
      <<CallArgs(Some("Automatic"), "Cold", Some(Fahrenheit(84)), TRUE, FALSE),
        <<\hA1, \hA0, \h76, \hFF, \hFF, \h50>> >>,
      <<CallArgs(None, "Automatic", Some(Celcius(30)), TRUE, FALSE),
        <<\hA1, \h82, \h4D, \hFF, \hFF, \h51>> >> }

\* C8: for each of the eleven reference calls, as_value is the reference
\* word.
C8_ReferenceWords ==
    \A w \in ReferenceWords :
        (args = w[1] /\ "as_value" \in calls) =>
            /\ IsSome(state)
            /\ value = Some(U64OfBytes(w[2]))

\* C8 witness: as_value of the Dry state at 30 Celsius, built with the fan
\* speed omitted, has been taken and is A1 81 4D FF FF 52.
C8_Witness ==
    /\ args = CallArgs(None, "Dry", Some(Celcius(30)), TRUE, FALSE)
    /\ "as_value" \in calls
    /\ value = Some(<<0, 10584397, 16777042>>)

\* C9: as_value and as_bitvec describe the same six bytes, the payload
\* followed by the checksum: the value is below 2^48 with the bytes most
\* significant first, its top byte 0xA1, and the bit vector has 48 bits, bit
\* i being bit 47 - i of the value.
C9_ValueAndBitsAgree ==
    Constructed =>
        /\ IsSome(value) =>
              /\ Unwrap(value) = U64OfBytes(Append(Unwrap(data), Unwrap(chk)))
              /\ Unwrap(value)[1] = 0
              /\ Unwrap(value)[2] \div 65536 = 161
        /\ IsSome(bits) =>
              /\ Len(Unwrap(bits)) = 48
              /\ \A i \in 0..47 :
                    Unwrap(bits)[i + 1] =
                        (U64Bit(U64OfBytes(Append(Unwrap(data), Unwrap(chk))), 47 - i) = 1)
        /\ (IsSome(value) /\ IsSome(bits)) =>
              \A i \in 0..47 :
                  Unwrap(bits)[i + 1] = (U64Bit(Unwrap(value), 47 - i) = 1)

\* C9 witness: both forms of one state have been taken.
C9_Witness ==
    /\ Constructed
    /\ {"as_value", "as_bitvec"} \subseteq calls
    /\ args.mode = "Cold"
    /\ args.temperature = Some(Fahrenheit(84))
    /\ Len(Unwrap(bits)) = 48
    /\ Unwrap(value)[2] \div 65536 = 161

----------------------------------------------------------------------------
(* Properties of InfraredProtocol::encode *)

\* C10: the encoding of n bits has 2 + 2n durations: the leading pulse and
\* gap, then for each bit in order the one pair if it is set and the zero
\* pair if not; no bits give the leading pair alone, and false, true gives
\* leading pair, zero pair, one pair.
C10_EncodeLayout ==
    (IsSome(bits) /\ IsSome(pulses)) =>
        LET b == Unwrap(bits)
            out == Unwrap(pulses)
            n == Len(b)
        IN  /\ Len(out) = 2 + 2 * n
            /\ out[1] = ir.leading_pulse
            /\ out[2] = ir.leading_gap
            /\ \A i \in 0..(n - 1) :
                  <<out[3 + 2 * i], out[4 + 2 * i]>> =
                      IF b[i + 1] THEN <<ir.one_pulse, ir.one_gap>>
                                  ELSE <<ir.zero_pulse, ir.zero_gap>>
            /\ (b = <<>>) => (out = <<ir.leading_pulse, ir.leading_gap>>)
            /\ (b = <<FALSE, TRUE>>) =>
                  (out = <<ir.leading_pulse, ir.leading_gap,
                           ir.zero_pulse, ir.zero_gap,
                           ir.one_pulse, ir.one_gap>>)

\* C10 witness: false, true has been encoded with the table of the test.
C10_Witness ==
    /\ ir = IR
    /\ bits = Some(<<FALSE, TRUE>>)
    /\ pulses = Some(<<4500, 4500, 500, 500, 500, 1500>>)

----------------------------------------------------------------------------
(* Totality past the validation boundary *)

\* C11: no 8-bit addition or subtraction of new, as_raw_parts or checksum
\* ever leaves 0..255; the stored degrees are at least 17 (Celsius) or 62
\* (Fahrenheit), and the offset written to payload byte 2 is at most 30
\* (Celsius) or 24 (Fahrenheit), below bit 5.
C11_NoOverflow ==
    /\ ~trapped
    /\ Constructed =>
          LET t == Unwrap(state).temperature
              lo == IF t.unit = "Celcius" THEN 17 ELSE 62
              top == IF t.unit = "Celcius" THEN 30 ELSE 24
          IN  /\ t.deg >= lo
              /\ t.deg - lo <= top
              /\ t.deg - lo < 32
              /\ IsSome(data) =>
                    /\ Unwrap(data)[3] % 32 = t.deg - lo
                    /\ Unwrap(data)[3] \div 32 = IF t.unit = "Celcius" THEN 2 ELSE 3
              /\ IsSome(chk) => Unwrap(chk) \in U8
              /\ IsSome(value) => /\ Unwrap(value)[1] \in 0..65535
                                  /\ Unwrap(value)[2] \in 0..16777215
                                  /\ Unwrap(value)[3] \in 0..16777215

\* C11 witness: a state built from 0 Fahrenheit, far below the range, has
\* gone through as_value and as_bitvec with no arithmetic leaving 0..255.
C11_Witness ==
    /\ Constructed
    /\ args.temperature = Some(Fahrenheit(0))
    /\ {"as_value", "as_bitvec"} \subseteq calls
    /\ Unwrap(data)[3] = 96
    /\ ~trapped

----------------------------------------------------------------------------
(* The temperature conversions alone, on any temperature *)

\* how the build treats an integer overflow
Builds == {"overflow-checks", "wrapping"}

InitTemperature ==
    /\ args = NoArgs
    /\ state = None
    /\ data = None
    /\ chk = None
    /\ value = None
    /\ bits = None
    /\ ir = IR
    /\ pulses = None
    /\ calls = {}
    /\ trapped = FALSE
    /\ temp \in Temperature
    /\ converted = None
    /\ byte = 0
    /\ reversed = <<>>

\* temp.as_fahrenheit(): no result when the overflow panics
AsFahrenheit ==
    /\ calls = {}
    /\ \E build \in Builds :
          converted' = IF as_fahrenheit_overflows(temp) /\ build = "overflow-checks"
                       THEN None
                       ELSE Some(as_fahrenheit(temp))
    /\ trapped' = (trapped \/ as_fahrenheit_overflows(temp))
    /\ calls' = {"as_fahrenheit"}
    /\ UNCHANGED <<pipeVars, temp, byte, reversed>>

\* temp.as_celcius(): no result when the overflow panics
AsCelcius ==
    /\ calls = {}
    /\ \E build \in Builds :
          converted' = IF as_celcius_overflows(temp) /\ build = "overflow-checks"
                       THEN None
                       ELSE Some(as_celcius(temp))
    /\ trapped' = (trapped \/ as_celcius_overflows(temp))
    /\ calls' = {"as_celcius"}
    /\ UNCHANGED <<pipeVars, temp, byte, reversed>>

NextTemperature == AsFahrenheit \/ AsCelcius

SpecTemperature == InitTemperature /\ [][NextTemperature]_vars

\* C12: as_fahrenheit of c Celsius, c in 17..30, is c*9/5+32 Fahrenheit and
\* as_celcius of f Fahrenheit, f in 62..86, is (f-32)*5/9 Celsius, with no
\* intermediate value leaving 0..255; a value already in the target unit
\* comes back unchanged.
C12_ConversionFormulas ==
    /\ ("as_fahrenheit" \in calls /\ temp.unit = "Celcius" /\ temp.deg \in 17..30) =>
          /\ converted = Some(Fahrenheit(((temp.deg * 9) \div 5) + 32))
          /\ ~trapped
    /\ ("as_celcius" \in calls /\ temp.unit = "Fahrenheit" /\ temp.deg \in 62..86) =>
          /\ converted = Some(Celcius(((temp.deg - 32) * 5) \div 9))
          /\ ~trapped
    /\ ("as_fahrenheit" \in calls /\ temp.unit = "Fahrenheit") => converted = Some(temp)
    /\ ("as_celcius" \in calls /\ temp.unit = "Celcius") => converted = Some(temp)

----------------------------------------------------------------------------
(* The bit reversal alone, on any byte, applied again to its own result *)

InitBitreverse ==
    /\ args = NoArgs
    /\ state = None
    /\ data = None
    /\ chk = None
    /\ value = None
    /\ bits = None
    /\ ir = IR
    /\ pulses = None
    /\ calls = {}
    /\ trapped = FALSE
    /\ temp = Celcius(MIN_CELCIUS)
    /\ converted = None
    /\ byte \in U8
    /\ reversed = <<>>

\* bitreverse(&byte), then bitreverse of the last result
Bitreverse ==
    /\ Len(reversed) < MaxApply
    /\ reversed' = Append(reversed,
                          bitreverse(IF reversed = <<>> THEN byte
                                     ELSE reversed[Len(reversed)]))
    /\ UNCHANGED <<pipeVars, calls, trapped, temp, converted, byte>>

NextBitreverse == Bitreverse

SpecBitreverse == InitBitreverse /\ [][NextBitreverse]_vars

\* C13: bit i of bitreverse(b) is bit 7 - i of b for every byte b, the
\* result is a byte, reversing twice gives b back, and bitreverse(0b10010111)
\* is 0b11101001.
C13_BitreverseMirrors ==
    \A k \in 1..Len(reversed) :
        /\ reversed[k] \in U8
        /\ (k % 2 = 1) => \A i \in 0..7 : BitAt(reversed[k], i) = BitAt(byte, 7 - i)
        /\ (k % 2 = 0) => reversed[k] = byte
        /\ (k = 1 /\ byte = 151) => reversed[k] = 233

\* C13 witness: the byte of the test has been reversed, and reversed again.
C13_Witness ==
    /\ byte = 151
    /\ Len(reversed) >= 2
    /\ reversed[1] = 233
    /\ reversed[2] = 151

----------------------------------------------------------------------------
(* Injectivity of the encoding *)

\* the temperatures a state can store for a mode other than Fan
ClampedTemperatures ==
    {Celcius(t) : t \in 17..30} \cup {Fahrenheit(t) : t \in 62..86}

\* every state new can return
NormalStates ==
    [fan_speed : EliosFanSpeed, mode : {"Cold", "Heat"},
     temperature : ClampedTemperatures, powered : BOOLEAN, sleep : BOOLEAN]
    \cup
    [fan_speed : {"Off"}, mode : {"Automatic"},
     temperature : ClampedTemperatures, powered : BOOLEAN, sleep : BOOLEAN]
    \cup
    [fan_speed : {"Off"}, mode : {"Dry"},
     temperature : ClampedTemperatures, powered : BOOLEAN, sleep : {FALSE}]
    \cup
    [fan_speed : EliosFanSpeed, mode : {"Fan"},
     temperature : {Celcius(47)}, powered : BOOLEAN, sleep : {FALSE}]

\* each of them with its three encodings
Encodings ==
    {[of |-> t, payload |-> as_raw_parts(t), word |-> as_value(t),
      bitvec |-> as_bitvec(t)] : t \in NormalStates}

\* for each payload, value and bit vector, the states it encodes
StatesOfPayload ==
    [p \in {e.payload : e \in Encodings} |->
        {e.of : e \in {f \in Encodings : f.payload = p}}]

StatesOfWord ==
    [w \in {e.word : e \in Encodings} |->
        {e.of : e \in {f \in Encodings : f.word = w}}]

StatesOfBitvec ==
    [b \in {e.bitvec : e \in Encodings} |->
        {e.of : e \in {f \in Encodings : f.bitvec = b}}]

\* payload byte 2 of the states of a mode other than Fan
NonFanTemperatureBytes ==
    {e.payload[3] : e \in {f \in Encodings : f.of.mode # "Fan"}}

\* C14: the payload, the value and the bit vector of a constructed state
\* are those of no other state new can return, and payload byte 2 of a Fan
\* state is byte 2 of no state of another mode.
C14_EncodingInjective ==
    Constructed =>
        LET s == Unwrap(state)
        IN  /\ s \in NormalStates
            /\ IsSome(data) => StatesOfPayload[Unwrap(data)] = {s}
            /\ IsSome(value) => StatesOfWord[Unwrap(value)] = {s}
            /\ IsSome(bits) => StatesOfBitvec[Unwrap(bits)] = {s}
            /\ (IsSome(data) /\ s.mode = "Fan") =>
                  Unwrap(data)[3] \notin NonFanTemperatureBytes

\* C14 witness: a Fan state and its three encodings, which differ from
\* those of the same state with the fan speed changed.
C14_Witness ==
    /\ Constructed
    /\ Unwrap(state).mode = "Fan"
    /\ Unwrap(state).fan_speed = "Medium"
    /\ IsSome(data) /\ IsSome(value) /\ IsSome(bits)
    /\ \E e \in Encodings :
          /\ e.of = [Unwrap(state) EXCEPT !.fan_speed = "High"]
          /\ e.payload # Unwrap(data)
          /\ e.word # Unwrap(value)
          /\ e.bitvec # Unwrap(bits)

====
